---- MODULE Spec2Model ----
(***************************************************************************)
(* envyeet: merging environment-variable files (src/envyeet.py).           *)
(*                                                                         *)
(* Text is modelled at character level: a string is a sequence of          *)
(* one-character strings, a file is one such sequence, and the parser, the *)
(* renderer and the merge are operators computed the way the Python code   *)
(* computes them.                                                          *)
(***************************************************************************)
EXTENDS Integers, Sequences, FiniteSets, TLC

(***************************************************************************)
(* Characters and the str methods the program uses.                        *)
(***************************************************************************)
NL == "\n"
SQ == "'"
DQ == "\""

\* Python's None; no string of the model equals it (characters are one long).
None == <<"None">>

\* The element of a one-element set: The({e : x \in {v}}) is e with the local
\* variable x holding the value of v.
The(S) == CHOOSE x \in S : TRUE

Upper == {"A","B","C","D","E","F","G","H","I","J","K","L","M",
          "N","O","P","Q","R","S","T","U","V","W","X","Y","Z"}
Lower == {"a","b","c","d","e","f","g","h","i","j","k","l","m",
          "n","o","p","q","r","s","t","u","v","w","x","y","z"}
Digit == {"0","1","2","3","4","5","6","7","8","9"}

\* the first and the following characters of an identifier in env_line_pattern
IdentStart == Upper \cup Lower \cup {"_"}
IdentChar  == IdentStart \cup Digit

\* the characters str.strip() removes and \s matches (those of the model's alphabet)
Whitespace == {" ", "\t", NL}

RECURSIVE lstrip(_)
lstrip(s) ==
    IF s = <<>> THEN s
    ELSE IF Head(s) \in Whitespace THEN lstrip(Tail(s)) ELSE s

RECURSIVE rstrip(_)
rstrip(s) ==
    IF s = <<>> THEN s
    ELSE IF s[Len(s)] \in Whitespace THEN rstrip(SubSeq(s, 1, Len(s) - 1)) ELSE s

strip(s) == rstrip(lstrip(s))

startswith(s, p) == Len(s) >= Len(p) /\ SubSeq(s, 1, Len(p)) = p

endswith(s, p) == Len(s) >= Len(p) /\ SubSeq(s, Len(s) - Len(p) + 1, Len(s)) = p

RECURSIVE join(_)
join(content) ==
    IF content = <<>> THEN <<>> ELSE Head(content) \o join(Tail(content))

\* f.readlines(): the text cut after every line terminator, terminators kept
\* (the texts of the model have no carriage return, so the newline translation
\* of text mode leaves them as they are)
RECURSIVE readlines(_)
readlines(text) ==
    IF text = <<>> THEN <<>>
    ELSE LET RECURSIVE eol(_)
             eol(i) == IF i > Len(text) THEN Len(text)
                       ELSE IF text[i] = NL THEN i ELSE eol(i + 1)
             n == eol(1)
         IN  <<SubSeq(text, 1, n)>> \o readlines(SubSeq(text, n + 1, Len(text)))

(***************************************************************************)
(* class EnvLine                                                           *)
(***************************************************************************)
EnvLine(raw, key, value, quote_style, is_export, is_comment, is_empty) ==
    [raw |-> raw, key |-> key, value |-> value, quote_style |-> quote_style,
     is_export |-> is_export, is_comment |-> is_comment, is_empty |-> is_empty]

(***************************************************************************)
(* env_line_pattern: at the start of the line an optional "export" with    *)
(* one or more whitespace characters, an identifier (group 1), "=", and    *)
(* the rest of the line up to its terminator (group 2).                    *)
(***************************************************************************)
KwExport == <<"e","x","p","o","r","t">>

RECURSIVE SpanLen(_, _)
\* length of the longest prefix of s made of characters of set cls
SpanLen(s, cls) ==
    IF s = <<>> \/ Head(s) \notin cls THEN 0 ELSE 1 + SpanLen(Tail(s), cls)

NoMatch == [matched |-> FALSE, key |-> None, value |-> None]

\* the length of the identifier at the start of s, 0 when there is none
IdentLen(s) ==
    IF s # <<>> /\ Head(s) \in IdentStart
    THEN 1 + SpanLen(Tail(s), IdentChar) ELSE 0

\* group 2: what follows the "=", up to the end or to a final line terminator
ValueSpan(rest) ==
    IF rest # <<>> /\ rest[Len(rest)] = NL
    THEN SubSeq(rest, 1, Len(rest) - 1) ELSE rest

\* an identifier of length n at the start of s, "=", and the span (no
\* character of which is a line terminator)
KeyValueAt(s, n, span) ==
    IF /\ n > 0
       /\ Len(s) > n
       /\ s[n + 1] = "="
       /\ \A i \in 1..Len(span) : span[i] # NL
    THEN [matched |-> TRUE, key |-> SubSeq(s, 1, n), value |-> span]
    ELSE NoMatch

\* groups 1 and 2 of env_line_pattern matched at the start of s
KeyValueMatch(s) ==
    The({ KeyValueAt(s, n, ValueSpan(SubSeq(s, n + 2, Len(s)))) : n \in {IdentLen(s)} })

\* the export alternative: the word export, the first ws (one or more)
\* characters of afterKw as whitespace, then the key and the value
ExportMatch(line, afterKw, ws) ==
    IF startswith(line, KwExport) /\ ws >= 1
    THEN KeyValueMatch(SubSeq(afterKw, ws + 1, Len(afterKw)))
    ELSE NoMatch

\* variant: the pattern is looked for anywhere in the line (search for match)
env_line_pattern_search(line) ==
    LET hits == {i \in 1..Len(line) : KeyValueMatch(SubSeq(line, i, Len(line))).matched}
    IN  IF hits = {}
        THEN NoMatch
        ELSE KeyValueMatch(SubSeq(line, CHOOSE i \in hits : \A j \in hits : i <= j,
                                  Len(line)))

env_line_pattern(line) ==
    The({ IF withExp.matched THEN withExp ELSE KeyValueMatch(line) :
          withExp \in
              { The({ ExportMatch(line, afterKw, SpanLen(afterKw, Whitespace)) :
                      afterKw \in {SubSeq(line, Len(KwExport) + 1, Len(line))} }) } })

(***************************************************************************)
(* The insertion-ordered dict of parse_env_file: a sequence of <<key,      *)
(* EnvLine>> entries in first-insertion order; assigning to a key that is  *)
(* present replaces its value where it stands.                             *)
(***************************************************************************)
DictHas(d, k) == \E i \in 1..Len(d) : d[i][1] = k

DictGet(d, k) == d[CHOOSE i \in 1..Len(d) : d[i][1] = k][2]

\* variant: the first assignment of a key is kept (first-write-wins)
DictSetFirstWins(d, k, v) ==
    IF DictHas(d, k) THEN d ELSE Append(d, <<k, v>>)

\* variant: every assignment adds an entry, also for a key already present
DictSetAppend(d, k, v) == Append(d, <<k, v>>)

\* variant: re-assigning a key moves it to the end (delete, then insert)
DictSetMoveToEnd(d, k, v) ==
    Append(SelectSeq(d, LAMBDA e : e[1] # k), <<k, v>>)

DictSet(d, k, v) ==
    IF DictHas(d, k)
    THEN [i \in 1..Len(d) |-> IF d[i][1] = k THEN <<k, v>> ELSE d[i]]
    ELSE Append(d, <<k, v>>)

(***************************************************************************)
(* parse_env_file                                                          *)
(***************************************************************************)
Warning(line_num, filepath) ==
    [kind |-> "malformed", line_num |-> line_num, filepath |-> filepath, keys |-> <<>>]

\* variant: the quote tests without the length test (a lone quote character
\* both starts and ends the span)
AssignmentLineNoLen(line, key, value_part) ==
    LET single == startswith(value_part, <<SQ>>) /\ endswith(value_part, <<SQ>>)
        double == startswith(value_part, <<DQ>>) /\ endswith(value_part, <<DQ>>)
    IN  EnvLine(line, key,
                IF single \/ double
                THEN SubSeq(value_part, 2, Len(value_part) - 1) ELSE value_part,
                IF single THEN <<SQ>> ELSE IF double THEN <<DQ>> ELSE None,
                startswith(strip(line), KwExport \o <<" ">>), FALSE, FALSE)

\* the record of a line that matched, with groups key and value_part
AssignmentLine(line, key, value_part) ==
    LET single == /\ startswith(value_part, <<SQ>>)
                  /\ endswith(value_part, <<SQ>>)
                  /\ Len(value_part) >= 2
        double == /\ startswith(value_part, <<DQ>>)
                  /\ endswith(value_part, <<DQ>>)
                  /\ Len(value_part) >= 2
        quote_style == IF single THEN <<SQ>>
                       ELSE IF double THEN <<DQ>> ELSE None
        value == IF single \/ double
                 THEN SubSeq(value_part, 2, Len(value_part) - 1)
                 ELSE value_part
        is_export == startswith(strip(line), KwExport \o <<" ">>)
    IN  EnvLine(line, key, value, quote_style, is_export, FALSE, FALSE)

\* variant: the comment test looks at the line as read, not at the stripped one
ParseLineRawComment(line) ==
    IF strip(line) = <<>>
    THEN EnvLine(line, None, None, None, FALSE, FALSE, TRUE)
    ELSE IF startswith(line, <<"#">>)
    THEN EnvLine(line, None, None, None, FALSE, TRUE, FALSE)
    ELSE IF env_line_pattern(line).matched
    THEN AssignmentLine(line, env_line_pattern(line).key, env_line_pattern(line).value)
    ELSE EnvLine(line, None, None, None, FALSE, FALSE, TRUE)

\* the EnvLine the loop body makes of one line
ParseLine(line) ==
    The({ IF stripped = <<>>
          THEN EnvLine(line, None, None, None, FALSE, FALSE, TRUE)
          ELSE IF startswith(stripped, <<"#">>)
          THEN EnvLine(line, None, None, None, FALSE, TRUE, FALSE)
          ELSE The({ IF match.matched
                     THEN AssignmentLine(line, match.key, match.value)
                     ELSE EnvLine(line, None, None, None, FALSE, FALSE, TRUE) :
                     match \in {env_line_pattern(line)} }) :
          stripped \in {strip(line)} })

\* one turn of the loop: env_line is the record of the line; the warning is
\* printed in the last branch, the one of a line that is not blank, not a
\* comment and did not match
ParseStep(acc, line, line_num, filepath, verbose, env_line) ==
    [env_dict  |-> IF env_line.key # None
                   THEN DictSet(acc.env_dict, env_line.key, env_line)
                   ELSE acc.env_dict,
     all_lines |-> Append(acc.all_lines, env_line),
     stderr    |-> IF verbose /\ env_line.is_empty /\ strip(line) # <<>>
                   THEN Append(acc.stderr, Warning(line_num, filepath))
                   ELSE acc.stderr]

RECURSIVE ParseLoop(_, _, _, _, _)
\* the for loop over enumerate(lines, 1), from line number line_num on
ParseLoop(lines, line_num, filepath, verbose, acc) ==
    IF line_num > Len(lines) THEN acc
    ELSE ParseLoop(lines, line_num + 1, filepath, verbose,
                   ParseStep(acc, lines[line_num], line_num, filepath, verbose,
                             ParseLine(lines[line_num])))

\* text is the content of the file at filepath (the file is readable)
parse_env_file(text, filepath, verbose) ==
    ParseLoop(readlines(text), 1, filepath, verbose,
              [env_dict |-> <<>>, all_lines |-> <<>>, stderr |-> <<>>])

(***************************************************************************)
(* Opening the file (the try block of parse_env_file).  In the file system *)
(* a path holds the text of a file, or one of two marks: there is no file  *)
(* (open raises FileNotFoundError), or there is a directory (open raises   *)
(* IsADirectoryError, an IOError).                                         *)
(***************************************************************************)
FileNotFoundError == <<"FileNotFoundError">>
IsADirectoryError == <<"IsADirectoryError">>

\* Path(p).exists()
exists(fs, p) == fs[p] # FileNotFoundError

\* repr of a path without quote or backslash characters
repr(p) == <<SQ>> \o p \o <<SQ>>

\* str(e) of the IsADirectoryError open raises
StrIsADirectory(filepath) ==
    <<"[","E","r","r","n","o"," ","2","1","]"," ","I","s"," ","a"," ",
      "d","i","r","e","c","t","o","r","y",":"," ">> \o repr(filepath)

\* the message of the ValueError parse_env_file raises, None when the file
\* is read
ReadError(fs, filepath) ==
    IF fs[filepath] = FileNotFoundError
    THEN <<"E","n","v","i","r","o","n","m","e","n","t"," ","f","i","l","e"," ",
           "n","o","t"," ","f","o","u","n","d",":"," ">> \o filepath
    ELSE IF fs[filepath] = IsADirectoryError
    THEN <<"E","r","r","o","r"," ","r","e","a","d","i","n","g"," ",
           "f","i","l","e"," ">> \o filepath \o <<":"," ">>
             \o StrIsADirectory(filepath)
    ELSE None

(***************************************************************************)
(* generate_line                                                           *)
(***************************************************************************)
\* variant: the quote style is ignored, the value is never wrapped
generate_line_unquoted(key, value, is_export, quote_style) ==
    (IF is_export THEN KwExport \o <<" ">> ELSE <<>>)
        \o key \o <<"=">> \o (IF value = None THEN <<>> ELSE value) \o <<NL>>

\* variant: the value is formatted as it is given (no "or" with the empty
\* string): an absent value comes out as the text None
generate_line_raw_value(key, value, is_export, quote_style) ==
    LET formatted_value ==
            IF quote_style = <<SQ>> THEN <<SQ>> \o (IF value = None THEN <<"N","o","n","e">> ELSE value) \o <<SQ>>
            ELSE IF quote_style = <<DQ>> THEN <<DQ>> \o (IF value = None THEN <<"N","o","n","e">> ELSE value) \o <<DQ>>
            ELSE (IF value = None THEN <<"N","o","n","e">> ELSE value)
    IN  (IF is_export THEN KwExport \o <<" ">> ELSE <<>>)
            \o key \o <<"=">> \o formatted_value \o <<NL>>

\* variant: a quoted value is always written in double quotes
generate_line_double(key, value, is_export, quote_style) ==
    (IF is_export THEN KwExport \o <<" ">> ELSE <<>>) \o key \o <<"=">>
        \o (IF quote_style # None
            THEN <<DQ>> \o (IF value = None THEN <<>> ELSE value) \o <<DQ>>
            ELSE (IF value = None THEN <<>> ELSE value))
        \o <<NL>>

generate_line(key, value, is_export, quote_style) ==
    LET safe_value      == IF value = None \/ value = <<>> THEN <<>> ELSE value
        formatted_value == IF quote_style = <<SQ>> THEN <<SQ>> \o safe_value \o <<SQ>>
                           ELSE IF quote_style = <<DQ>> THEN <<DQ>> \o safe_value \o <<DQ>>
                           ELSE safe_value
        export_prefix   == IF is_export THEN KwExport \o <<" ">> ELSE <<>>
    IN  export_prefix \o key \o <<"=">> \o formatted_value \o <<NL>>

(***************************************************************************)
(* merge_env_files                                                         *)
(***************************************************************************)
Report(kind, keys) ==
    [kind |-> kind, line_num |-> 0, filepath |-> "", keys |-> keys]

\* variant: an assignment the source does not have is rendered again from
\* its own record instead of being copied
MergeLineRenderAll(line, source_dict) ==
    IF line.key # None
    THEN LET source_line == IF DictHas(source_dict, line.key)
                            THEN DictGet(source_dict, line.key) ELSE line
         IN  [out     |-> generate_line(line.key, source_line.value,
                                        line.is_export \/ source_line.is_export,
                                        source_line.quote_style),
              updated |-> DictHas(source_dict, line.key)]
    ELSE [out |-> line.raw, updated |-> FALSE]

\* the line the first loop emits for one target record, and whether it updates
MergeLine(line, source_dict) ==
    IF line.key # None /\ line.key # <<>> /\ DictHas(source_dict, line.key)
    THEN The({ [out     |-> generate_line(line.key, source_line.value,
                                          line.is_export \/ source_line.is_export,
                                          source_line.quote_style),
                updated |-> TRUE] :
               source_line \in {DictGet(source_dict, line.key)} })
    ELSE [out |-> line.raw, updated |-> FALSE]

\* one turn of the first loop: r is what MergeLine made of the line
TargetStep(acc, line, r) ==
    [output_lines |-> Append(acc.output_lines, r.out),
     updated_keys |-> IF r.updated
                      THEN Append(acc.updated_keys, line.key)
                      ELSE acc.updated_keys]

RECURSIVE TargetLoopReversed(_, _, _, _)
\* variant: each line is put in front of the output (insert(0, ...) for append)
TargetLoopReversed(target_lines, i, source_dict, acc) ==
    IF i > Len(target_lines) THEN acc
    ELSE LET line == target_lines[i]
             r    == MergeLine(line, source_dict)
         IN  TargetLoopReversed(target_lines, i + 1, source_dict,
                 [output_lines |-> <<r.out>> \o acc.output_lines,
                  updated_keys |-> IF r.updated
                                   THEN Append(acc.updated_keys, line.key)
                                   ELSE acc.updated_keys])

RECURSIVE TargetLoop(_, _, _, _)
\* for line in target_lines
TargetLoop(target_lines, i, source_dict, acc) ==
    IF i > Len(target_lines) THEN acc
    ELSE TargetLoop(target_lines, i + 1, source_dict,
                    TargetStep(acc, target_lines[i],
                               MergeLine(target_lines[i], source_dict)))

RECURSIVE SquashLoopAll(_, _, _, _)
\* variant: every source key is appended, also one the target has
SquashLoopAll(source_dict, i, target_dict, acc) ==
    IF i > Len(source_dict) THEN acc
    ELSE LET key         == source_dict[i][1]
             source_line == source_dict[i][2]
         IN  SquashLoopAll(source_dict, i + 1, target_dict,
                 [output_lines |-> Append(acc.output_lines,
                                      generate_line(key, source_line.value,
                                                    source_line.is_export,
                                                    source_line.quote_style)),
                  added_keys   |-> Append(acc.added_keys, key)])

RECURSIVE SquashLoop(_, _, _, _)
\* for key, source_line in source_dict.items()
SquashLoop(source_dict, i, target_dict, acc) ==
    IF i > Len(source_dict) THEN acc
    ELSE LET key         == source_dict[i][1]
             source_line == source_dict[i][2]
         IN  SquashLoop(source_dict, i + 1, target_dict,
                 IF ~DictHas(target_dict, key)
                 THEN [output_lines |-> Append(acc.output_lines,
                                            generate_line(key, source_line.value,
                                                          source_line.is_export,
                                                          source_line.quote_style)),
                       added_keys   |-> Append(acc.added_keys, key)]
                 ELSE acc)

\* the dry-run report printed to stderr
DryRunReport(dry_run, verbose, updated_keys, added_keys) ==
    IF dry_run /\ verbose
    THEN (IF updated_keys # <<>> THEN <<Report("update", updated_keys)>> ELSE <<>>)
         \o (IF added_keys # <<>> THEN <<Report("add", added_keys)>> ELSE <<>>)
         \o (IF updated_keys = <<>> /\ added_keys = <<>>
             THEN <<Report("nochange", <<>>)>> ELSE <<>>)
    ELSE <<>>

\* the second part of the function: first is what the loop over the target
\* lines left
Squashed(src, tgt, first, squash) ==
    IF squash
    THEN SquashLoop(src.env_dict, 1, tgt.env_dict,
                    [output_lines |-> first.output_lines, added_keys |-> <<>>])
    ELSE [output_lines |-> first.output_lines, added_keys |-> <<>>]

\* what the function returns and prints, with its locals as they are at the
\* return
MergeResult(src, tgt, first, squashed, dry_run, verbose) ==
    [output_lines |-> squashed.output_lines,
     updated_keys |-> first.updated_keys,
     added_keys   |-> squashed.added_keys,
     source_dict  |-> src.env_dict,
     source_lines |-> src.all_lines,
     target_dict  |-> tgt.env_dict,
     target_lines |-> tgt.all_lines,
     stderr       |-> src.stderr \o tgt.stderr
                      \o DryRunReport(dry_run, verbose, first.updated_keys,
                                      squashed.added_keys)]

\* fs maps a path to the text of the file there
merge_env_files(fs, source, target, squash, dry_run, verbose) ==
    The({ The({ The({ MergeResult(src, tgt, first, squashed, dry_run, verbose) :
                      squashed \in {Squashed(src, tgt, first, squash)} }) :
                first \in {TargetLoop(tgt.all_lines, 1, src.env_dict,
                                      [output_lines |-> <<>>, updated_keys |-> <<>>])} }) :
          src \in {parse_env_file(fs[source], source, verbose)},
          tgt \in {parse_env_file(fs[target], target, verbose)} })

\* the call as a whole: the ValueError of the first file that cannot be read
\* (the source is parsed first, and its warnings are printed before the
\* target is opened), else what the function returns and prints
merge_env_files_call(fs, source, target, squash, dry_run, verbose) ==
    IF ReadError(fs, source) # None
    THEN [output_lines |-> <<>>, updated_keys |-> <<>>, added_keys |-> <<>>,
          source_dict |-> <<>>, source_lines |-> <<>>,
          target_dict |-> <<>>, target_lines |-> <<>>,
          stderr |-> <<>>, raised |-> ReadError(fs, source)]
    ELSE IF ReadError(fs, target) # None
    THEN The({ [output_lines |-> <<>>, updated_keys |-> <<>>, added_keys |-> <<>>,
                source_dict |-> src.env_dict, source_lines |-> src.all_lines,
                target_dict |-> <<>>, target_lines |-> <<>>,
                stderr |-> src.stderr, raised |-> ReadError(fs, target)] :
               src \in {parse_env_file(fs[source], source, verbose)} })
    ELSE The({ [output_lines |-> r.output_lines, updated_keys |-> r.updated_keys,
                added_keys |-> r.added_keys,
                source_dict |-> r.source_dict, source_lines |-> r.source_lines,
                target_dict |-> r.target_dict, target_lines |-> r.target_lines,
                stderr |-> r.stderr, raised |-> None] :
               r \in {merge_env_files(fs, source, target, squash, dry_run, verbose)} })

(***************************************************************************)
(* prompt_confirmation, write_output and cmd_merge.  Standard output is    *)
(* one text; a line of standard error the command prints is a record.      *)
(***************************************************************************)
UpperSeq == <<"A","B","C","D","E","F","G","H","I","J","K","L","M",
              "N","O","P","Q","R","S","T","U","V","W","X","Y","Z">>
LowerSeq == <<"a","b","c","d","e","f","g","h","i","j","k","l","m",
              "n","o","p","q","r","s","t","u","v","w","x","y","z">>

\* str.lower
lower(s) ==
    [i \in 1..Len(s) |->
        IF s[i] \in Upper
        THEN LowerSeq[CHOOSE k \in 1..Len(UpperSeq) : UpperSeq[k] = s[i]]
        ELSE s[i]]

\* sub in s
Contains(s, sub) ==
    \E i \in 1..(Len(s) - Len(sub) + 1) : SubSeq(s, i, i + Len(sub) - 1) = sub

\* input() reads no line: the end of standard input, or an interrupt
EOFError == <<"EOFError">>

\* tty is what is_tty() returns; response is the line typed at the prompt
prompt_confirmation(message, tty, response) ==
    IF ~tty THEN FALSE
    ELSE IF response = EOFError THEN FALSE
    ELSE lower(strip(response)) \in { <<"y">>, <<"y","e","s">> }

ErrorLine(e) == [kind |-> "error", text |-> e]
Aborted == [kind |-> "aborted"]
Traceback(e) == [kind |-> "traceback", text |-> e]

OverwriteMessage(filepath) ==
    <<"O","v","e","r","w","r","i","t","e"," ">> \o filepath \o <<"?">>

\* the confirmation is asked for: the path is given and exists, standard
\* output is a TTY and force is off
Asks(fs, filepath, force, tty) ==
    /\ filepath # None
    /\ filepath # <<>>
    /\ exists(fs, filepath)
    /\ tty
    /\ ~force

\* open(filepath, "w") and f.write(output): a directory at the path makes open
\* raise IsADirectoryError and is left as it is
OpenAndWrite(fs, filepath, output) ==
    IF fs[filepath] = IsADirectoryError
    THEN [files |-> fs, raised |-> IsADirectoryError]
    ELSE [files |-> [fs EXCEPT ![filepath] = output], raised |-> None]

\* variant: the confirmation is asked for whether or not standard output is
\* a TTY
write_output_any_terminal(fs, content, filepath, quiet, force, tty, response) ==
    IF filepath # None /\ filepath # <<>>
    THEN IF /\ exists(fs, filepath)
            /\ ~force
            /\ ~prompt_confirmation(OverwriteMessage(filepath), tty, response)
         THEN [files |-> fs, stdout |-> <<>>, stderr |-> <<Aborted>>,
               exited |-> TRUE, raised |-> None]
         ELSE The({ [files  |-> o.files,
                     stdout |-> IF quiet \/ o.raised # None THEN <<>>
                                ELSE <<"W","r","i","t","t","e","n"," ","t","o"," ">>
                                         \o filepath \o <<NL>>,
                     stderr |-> <<>>,
                     exited |-> FALSE,
                     raised |-> o.raised] :
                    o \in {OpenAndWrite(fs, filepath, join(content))} })
    ELSE [files |-> fs,
          stdout |-> IF quiet THEN <<>> ELSE join(content),
          stderr |-> <<>>,
          exited |-> FALSE,
          raised |-> None]

\* write_output(content, filepath, quiet, force) in file system fs: the file
\* system and the text printed after it, whether it ended the process with
\* sys.exit(1), and the exception open raised
write_output(fs, content, filepath, quiet, force, tty, response) ==
    IF filepath # None /\ filepath # <<>>
    THEN IF /\ Asks(fs, filepath, force, tty)
            /\ ~prompt_confirmation(OverwriteMessage(filepath), tty, response)
         THEN [files |-> fs, stdout |-> <<>>, stderr |-> <<Aborted>>,
               exited |-> TRUE, raised |-> None]
         ELSE The({ [files  |-> o.files,
                     stdout |-> IF quiet \/ o.raised # None THEN <<>>
                                ELSE <<"W","r","i","t","t","e","n"," ","t","o"," ">>
                                         \o filepath \o <<NL>>,
                     stderr |-> <<>>,
                     exited |-> FALSE,
                     raised |-> o.raised] :
                    o \in {OpenAndWrite(fs, filepath, join(content))} })
    ELSE [files |-> fs,
          stdout |-> IF quiet THEN <<>> ELSE join(content),
          stderr |-> <<>>,
          exited |-> FALSE,
          raised |-> None]

\* the path cmd_merge passes to write_output
OutputPath(a) ==
    IF a.overwrite THEN a.target
    ELSE IF a.output # None /\ a.output # <<>> THEN a.output
    ELSE None

\* the force cmd_merge passes to write_output: --force or --no-input, and
\* the default when the result goes to standard output
ForceOf(a) ==
    IF OutputPath(a) = None THEN FALSE ELSE a.force \/ a.no_input

\* write_output has not been called
NoWriteCall == [content |-> <<>>, filepath |-> None, quiet |-> FALSE, force |-> FALSE]

\* the except clause of cmd_merge: the message is printed and the exit
\* status is chosen by looking for the words "not found" in it
ExceptValueError(fs, merged, e) ==
    [files |-> fs, stdout |-> <<>>,
     stderr |-> merged.stderr \o <<ErrorLine(e)>>,
     status |-> IF Contains(e, <<"n","o","t"," ","f","o","u","n","d">>) THEN 2 ELSE 1,
     merged |-> merged,
     write  |-> NoWriteCall]

\* what cmd_merge does once merge_env_files has returned merged
\* an exception that is no ValueError passes the except clause: the
\* interpreter prints the traceback and the process ends with status 1
AfterMerge(fs, a, merged, w) ==
    [files |-> w.files, stdout |-> w.stdout,
     stderr |-> merged.stderr \o w.stderr
                   \o (IF w.raised # None THEN <<Traceback(w.raised)>> ELSE <<>>),
     status |-> IF w.exited \/ w.raised # None THEN 1 ELSE 0,
     merged |-> merged,
     write  |-> [content |-> merged.output_lines, filepath |-> OutputPath(a),
                 quiet |-> a.quiet, force |-> ForceOf(a)]]

\* variant: without the early return of a dry run
cmd_merge_no_return(fs, a, tty, response) ==
    LET merged == merge_env_files_call(fs, a.source, a.target, a.squash,
                                       a.dry_run, a.verbose)
    IN  IF merged.raised # None
        THEN ExceptValueError(fs, merged, merged.raised)
        ELSE AfterMerge(fs, a, merged,
                        write_output(fs, merged.output_lines, OutputPath(a),
                                     a.quiet, ForceOf(a), tty, response))

\* cmd_merge(args) with args = a: the file system, what is printed and the
\* exit status of the process
cmd_merge(fs, a, tty, response) ==
    The({ IF merged.raised # None
          THEN ExceptValueError(fs, merged, merged.raised)
          ELSE IF a.dry_run
          THEN [files |-> fs, stdout |-> <<>>, stderr |-> merged.stderr,
                status |-> 0, merged |-> merged, write |-> NoWriteCall]
          ELSE AfterMerge(fs, a, merged,
                          write_output(fs, merged.output_lines, OutputPath(a),
                                       a.quiet, ForceOf(a), tty, response)) :
          merged \in {merge_env_files_call(fs, a.source, a.target, a.squash,
                                           a.dry_run, a.verbose)} })

(***************************************************************************)
(* backup_file.  The time of the call is a number of seconds; the paths of *)
(* the model have no separator, so that str(Path(p)) is p.                 *)
(***************************************************************************)
DigitSeq == <<"0","1","2","3","4","5","6","7","8","9">>

\* datetime.strftime("%Y%m%dT%H%M%SZ") of second now (below ten) of a day
strftime(now) ==
    <<"2","0","2","6","0","1","0","1","T","0","0","0","0","0">>
        \o <<DigitSeq[now + 1]>> \o <<"Z">>

\* the path of the backup: the custom one, else the timestamped one
BackupPath(filepath, output, now) ==
    IF output # None /\ output # <<>>
    THEN output
    ELSE filepath \o <<".","b","k","p","-">> \o strftime(now)

\* shutil.copy2(filepath, backup_path): the source is opened first, and
\* opening a directory raises
Copy2(fs, filepath, backup_path, quiet) ==
    IF fs[filepath] = IsADirectoryError
    THEN [files |-> fs, raised |-> StrIsADirectory(filepath), stdout |-> <<>>,
          backup_path |-> None]
    ELSE [files |-> [fs EXCEPT ![backup_path] = fs[filepath]],
          raised |-> None,
          stdout |-> IF quiet THEN <<>> ELSE backup_path \o <<NL>>,
          backup_path |-> backup_path]

\* variant: without the test that the backup path is free
backup_file_overwrite(fs, filepath, output, quiet, now) ==
    IF ~exists(fs, filepath)
    THEN [files |-> fs,
          raised |-> <<"F","i","l","e"," ","n","o","t"," ","f","o","u","n","d",":"," ">>
                         \o filepath,
          stdout |-> <<>>, backup_path |-> None]
    ELSE Copy2(fs, filepath, BackupPath(filepath, output, now), quiet)

\* backup_file(filepath, output, quiet) called at second now in file system
\* fs: the file system after it, the error it raised (None: it returned),
\* what it printed and the path it returned
backup_file(fs, filepath, output, quiet, now) ==
    IF ~exists(fs, filepath)
    THEN [files |-> fs,
          raised |-> <<"F","i","l","e"," ","n","o","t"," ","f","o","u","n","d",":"," ">>
                         \o filepath,
          stdout |-> <<>>, backup_path |-> None]
    ELSE IF exists(fs, BackupPath(filepath, output, now))
    THEN [files |-> fs,
          raised |-> <<"B","a","c","k","u","p"," ","f","i","l","e"," ","a","l","r","e","a","d","y",
                       " ","e","x","i","s","t","s",":"," ">>
                         \o BackupPath(filepath, output, now),
          stdout |-> <<>>, backup_path |-> None]
    ELSE Copy2(fs, filepath, BackupPath(filepath, output, now), quiet)

(***************************************************************************)
(* The files the merge is run on.  A file is a sequence of lines of the    *)
(* sets below, each ended by a line terminator, except that the last line  *)
(* of a file may have none.                                                *)
(***************************************************************************)
MaxSourceLines == 3
MaxTargetLines == 2

Source == "source.env"
Target == "target.env"
Paths  == {Source, Target}

SourceLineSet ==
    { <<"A","=","1">>,
      KwExport \o <<" ","A","=",SQ,"2",SQ>>,
      <<"B","=",DQ,"3",DQ>> }

TargetLineSet ==
    { <<"A","=",DQ,"0",DQ>>,
      KwExport \o <<"\t","B","=","0">>,
      <<"#","A","=","1">>,
      <<>>,
      <<"A"," ","B","=","1">> }

SeqsUpTo(S, n) == UNION {[1..k -> S] : k \in 0..n}

\* the texts made of the given lines: every line terminated, or all but the last
Texts(lines) ==
    LET full == join([i \in 1..Len(lines) |-> lines[i] \o <<NL>>])
    IN  IF lines = <<>> \/ lines[Len(lines)] = <<>>
        THEN {full}
        ELSE {full, SubSeq(full, 1, Len(full) - 1)}

SourceFiles == UNION {Texts(ls) : ls \in SeqsUpTo(SourceLineSet, MaxSourceLines)}
TargetFiles == UNION {Texts(ls) : ls \in SeqsUpTo(TargetLineSet, MaxTargetLines)}

(***************************************************************************)
(* State: the file system, and one call of merge_env_files: its arguments, *)
(* its locals at the return, what it returned and what it printed.         *)
(***************************************************************************)
VARIABLES files, pc, call, source_dict, source_lines, target_dict, target_lines,
          output_lines, updated_keys, added_keys, stderr

\* the ValueError a call raised (None: it returned)
VARIABLES error

\* one call of parse_env_file: its arguments and the pair it returned
VARIABLES parse_call, env_dict, all_lines

\* one call of generate_line: its arguments and the line it returned
VARIABLES gen_call, new_line

\* one run of the merge command: the parsed arguments, the terminal (is
\* standard output a TTY, what is typed at the prompt), standard output and
\* the exit status
VARIABLES args, terminal, stdout, status

\* the last call of backup_file: its arguments, the time of the call and the
\* number of the call, and the path it returned
VARIABLES backup_call, backup_path

\* the last call of write_output: its arguments
VARIABLES write_call

mergeVars == <<call, source_dict, source_lines, target_dict, target_lines,
               output_lines, updated_keys, added_keys>>
parseVars == <<parse_call, env_dict, all_lines>>
genVars == <<gen_call, new_line>>
cmdVars == <<args, terminal, stdout, status, write_call>>
backupVars == <<backup_call, backup_path>>

vars == <<files, pc, stderr, error, mergeVars, parseVars, genVars, cmdVars,
          backupVars>>

NoCall == [source |-> "", target |-> "", squash |-> FALSE,
           dry_run |-> FALSE, verbose |-> FALSE]

NoBackupCall == [filepath |-> <<>>, output |-> None, quiet |-> FALSE,
                 now |-> 0, n |-> 0]

\* before anything is called
NotCalled ==
    /\ error = None
    /\ parse_call = None
    /\ env_dict = <<>>
    /\ all_lines = <<>>
    /\ gen_call = None
    /\ new_line = None
    /\ args = None
    /\ terminal = None
    /\ stdout = <<>>
    /\ status = None
    /\ backup_call = NoBackupCall
    /\ backup_path = None
    /\ write_call = NoWriteCall

Init ==
    /\ files \in {[p \in Paths |-> IF p = Source THEN s ELSE t] :
                      s \in SourceFiles, t \in TargetFiles}
    /\ pc = "start"
    /\ call = NoCall
    /\ source_dict = <<>>
    /\ source_lines = <<>>
    /\ target_dict = <<>>
    /\ target_lines = <<>>
    /\ output_lines = <<>>
    /\ updated_keys = <<>>
    /\ added_keys = <<>>
    /\ stderr = <<>>
    /\ NotCalled

\* variant: the function writes the merged lines to the target itself
MergeEnvFilesInPlace(source, target, squash, dry_run, verbose) ==
    /\ pc = "start"
    /\ \E r \in {merge_env_files_call(files, source, target, squash, dry_run, verbose)} :
           /\ error' = r.raised
           /\ source_dict' = r.source_dict
           /\ source_lines' = r.source_lines
           /\ target_dict' = r.target_dict
           /\ target_lines' = r.target_lines
           /\ output_lines' = r.output_lines
           /\ updated_keys' = r.updated_keys
           /\ added_keys' = r.added_keys
           /\ stderr' = r.stderr
           /\ files' = IF r.raised = None
                       THEN [files EXCEPT ![target] = join(r.output_lines)]
                       ELSE files
    /\ call' = [source |-> source, target |-> target, squash |-> squash,
                dry_run |-> dry_run, verbose |-> verbose]
    /\ pc' = "merged"
    /\ UNCHANGED <<parseVars, genVars, cmdVars, backupVars>>

\* one call merge_env_files(source, target, squash, dry_run, verbose)
MergeEnvFiles(source, target, squash, dry_run, verbose) ==
    /\ pc = "start"
    /\ \E r \in {merge_env_files_call(files, source, target, squash, dry_run, verbose)} :
           /\ error' = r.raised
           /\ source_dict' = r.source_dict
           /\ source_lines' = r.source_lines
           /\ target_dict' = r.target_dict
           /\ target_lines' = r.target_lines
           /\ output_lines' = r.output_lines
           /\ updated_keys' = r.updated_keys
           /\ added_keys' = r.added_keys
           /\ stderr' = r.stderr
    /\ call' = [source |-> source, target |-> target, squash |-> squash,
                dry_run |-> dry_run, verbose |-> verbose]
    /\ pc' = "merged"
    /\ UNCHANGED <<files, parseVars, genVars, cmdVars, backupVars>>

\* merge_env_files(source, target, squash=...) on the two files, dry_run and
\* verbose left at their defaults
Next ==
    \E squash \in BOOLEAN : MergeEnvFiles(Source, Target, squash, FALSE, FALSE)

Spec == Init /\ [][Next]_vars

(***************************************************************************)
(* A file merged with itself: merge_env_files(p, p, squash=...).           *)
(***************************************************************************)
MaxSelfLines == 2

SelfLineSet ==
    SourceLineSet \cup TargetLineSet
        \cup { KwExport \o <<" "," ","C","=","4">>, <<"C","=",SQ,SQ>> }

SelfFiles == UNION {Texts(ls) : ls \in SeqsUpTo(SelfLineSet, MaxSelfLines)}

InitSelf ==
    /\ files \in {[p \in Paths |-> IF p = Target THEN t ELSE <<>>] : t \in SelfFiles}
    /\ pc = "start"
    /\ call = NoCall
    /\ source_dict = <<>>
    /\ source_lines = <<>>
    /\ target_dict = <<>>
    /\ target_lines = <<>>
    /\ output_lines = <<>>
    /\ updated_keys = <<>>
    /\ added_keys = <<>>
    /\ stderr = <<>>
    /\ NotCalled

NextSelf ==
    \E squash \in BOOLEAN : MergeEnvFiles(Target, Target, squash, FALSE, FALSE)

SpecSelf == InitSelf /\ [][NextSelf]_vars

(***************************************************************************)
(* The parser and the renderer on their own: parse_env_file(p, verbose) on *)
(* a file of the lines below, then generate_line on the fields of one of   *)
(* the assignment records it returned.                                     *)
(***************************************************************************)
MaxParseLines == 2

ParseLineSet ==
    { <<"A","=","1">>,
      KwExport \o <<" ","A","=",SQ,"2",SQ>>,
      KwExport \o <<"\t","B","=","0">>,
      KwExport \o <<" "," ","C","=","4">>,
      KwExport \o <<"=","1">>,
      <<"#","A","=","1">>,
      <<" ","#"," ","c">>,
      <<>>,
      <<" ">>,
      <<"A"," ","B","=","1">>,
      <<" ","A","=","1">>,
      <<"9","A","=","1">>,
      <<"A","=">>,
      <<"A","=",SQ>>,
      <<"A","=",SQ,"x",DQ>>,
      <<"A","=",DQ,"x",DQ,"y">>,
      <<"A","=",SQ,SQ>>,
      <<"A","=",SQ,"a",SQ,"b",SQ>>,
      <<"_","b","9","=",DQ,"x"," ",DQ>> }

ParseFiles ==
    {FileNotFoundError, IsADirectoryError}
        \cup UNION {Texts(ls) : ls \in SeqsUpTo(ParseLineSet, MaxParseLines)}

InitParse ==
    /\ files \in {[p \in Paths |-> IF p = Target THEN t ELSE <<>>] : t \in ParseFiles}
    /\ pc = "start"
    /\ call = NoCall
    /\ source_dict = <<>>
    /\ source_lines = <<>>
    /\ target_dict = <<>>
    /\ target_lines = <<>>
    /\ output_lines = <<>>
    /\ updated_keys = <<>>
    /\ added_keys = <<>>
    /\ stderr = <<>>
    /\ NotCalled

\* one call parse_env_file(filepath, verbose)
ParseEnvFile(filepath, verbose) ==
    /\ pc = "start"
    /\ parse_call' = [filepath |-> filepath, verbose |-> verbose]
    /\ IF ReadError(files, filepath) # None
       THEN /\ error' = ReadError(files, filepath)
            /\ UNCHANGED <<env_dict, all_lines, stderr>>
       ELSE \E r \in {parse_env_file(files[filepath], filepath, verbose)} :
                /\ env_dict' = r.env_dict
                /\ all_lines' = r.all_lines
                /\ stderr' = r.stderr
                /\ error' = None
    /\ pc' = "parsed"
    /\ UNCHANGED <<files, mergeVars, genVars, cmdVars, backupVars>>

\* one call generate_line(key, value, is_export, quote_style)
GenerateLine(key, value, is_export, quote_style) ==
    /\ gen_call' = [key |-> key, value |-> value, is_export |-> is_export,
                    quote_style |-> quote_style]
    /\ new_line' = generate_line(key, value, is_export, quote_style)
    /\ pc' = IF pc = "parsed" THEN "parsed_rendered" ELSE "rendered"
    /\ UNCHANGED <<files, stderr, error, mergeVars, parseVars, cmdVars, backupVars>>

\* generate_line called with the key, value, exported flag and quote style of
\* the i-th record, an assignment
RenderRecord(i) ==
    /\ pc = "parsed"
    /\ all_lines[i].key # None
    /\ GenerateLine(all_lines[i].key, all_lines[i].value, all_lines[i].is_export,
                    all_lines[i].quote_style)

NextParse ==
    \/ \E verbose \in BOOLEAN : ParseEnvFile(Target, verbose)
    \/ \E i \in 1..Len(all_lines) : RenderRecord(i)

SpecParse == InitParse /\ [][NextParse]_vars

(***************************************************************************)
(* The renderer called directly: generate_line(key, value, is_export,      *)
(* quote_style) with a value that is absent (None) or a text of at most    *)
(* MaxValueLen characters, and a quote style that is None, a quote         *)
(* character or another string.                                            *)
(***************************************************************************)
MaxValueLen == 2

RenderKeys == { <<"A">>, <<"_","b","9">> }

RenderValues == {None} \cup SeqsUpTo({"v", SQ, DQ}, MaxValueLen)

RenderQuoteStyles == {None, <<SQ>>, <<DQ>>, <<>>}

InitRender ==
    /\ files = [p \in Paths |-> <<>>]
    /\ pc = "start"
    /\ call = NoCall
    /\ source_dict = <<>>
    /\ source_lines = <<>>
    /\ target_dict = <<>>
    /\ target_lines = <<>>
    /\ output_lines = <<>>
    /\ updated_keys = <<>>
    /\ added_keys = <<>>
    /\ stderr = <<>>
    /\ NotCalled

NextRender ==
    \E key \in RenderKeys, value \in RenderValues, is_export \in BOOLEAN,
       quote_style \in RenderQuoteStyles :
        pc = "start" /\ GenerateLine(key, value, is_export, quote_style)

SpecRender == InitRender /\ [][NextRender]_vars

(***************************************************************************)
(* The merge command: envyeet merge SOURCE TARGET with its flags, and the  *)
(* function merge_env_files called directly with every combination of its  *)
(* flags, on files that may be missing or unreadable.                      *)
(***************************************************************************)
MaxCmdLines == 1

SourcePath == <<"a",".","e","n","v">>
TargetPath == <<"n","o","t"," ","f","o","u","n","d",".","e","n","v">>
OutPath    == <<"o","u","t",".","e","n","v">>
CmdPaths   == {SourcePath, TargetPath, OutPath}

CmdSourceLineSet == { <<"A","=","1">>, <<"B","=",SQ,"2",SQ>> }
CmdTargetLineSet == { <<"A","=","0">>, <<"#","c">> }

\* files of complete lines
CmdFiles(lineSet) ==
    { join([i \in 1..Len(ls) |-> ls[i] \o <<NL>>]) : ls \in SeqsUpTo(lineSet, MaxCmdLines) }

Unreadable == {FileNotFoundError, IsADirectoryError}

InitCmd ==
    /\ files \in {[p \in CmdPaths |-> IF p = SourcePath THEN s
                                      ELSE IF p = TargetPath THEN t ELSE o] :
                      s \in Unreadable \cup CmdFiles(CmdSourceLineSet),
                      t \in Unreadable \cup CmdFiles(CmdTargetLineSet),
                      o \in {FileNotFoundError, <<"C","=","3",NL>>}}
    /\ pc = "start"
    /\ call = NoCall
    /\ source_dict = <<>>
    /\ source_lines = <<>>
    /\ target_dict = <<>>
    /\ target_lines = <<>>
    /\ output_lines = <<>>
    /\ updated_keys = <<>>
    /\ added_keys = <<>>
    /\ stderr = <<>>
    /\ NotCalled

\* the argparse namespaces of envyeet merge a.env "not found.env" [flags]
CmdArgs ==
    [source : {SourcePath}, target : {TargetPath}, squash : BOOLEAN,
     output : {None, OutPath, TargetPath, SourcePath}, overwrite : BOOLEAN,
     dry_run : BOOLEAN, force : BOOLEAN, no_input : BOOLEAN,
     quiet : BOOLEAN, verbose : BOOLEAN]

\* lines typed at the prompt
Responses == { <<" ","Y">>, <<"n">>, EOFError }

\* the run comes to the prompt of write_output
ComesToPrompt(fs, a, tty) ==
    /\ ReadError(fs, a.source) = None
    /\ ReadError(fs, a.target) = None
    /\ ~a.dry_run
    /\ Asks(fs, OutputPath(a), ForceOf(a), tty)

\* one run of cmd_merge(args) with args = a, standard output a TTY or not;
\* a response is read only when the run comes to the prompt
CmdMerge(a, tty) ==
    /\ pc = "start"
    /\ \E response \in (IF ComesToPrompt(files, a, tty) THEN Responses ELSE {None}) :
         \E c \in {cmd_merge(files, a, tty, response)} :
           /\ files' = c.files
           /\ stdout' = c.stdout
           /\ stderr' = c.stderr
           /\ status' = c.status
           /\ error' = c.merged.raised
           /\ source_dict' = c.merged.source_dict
           /\ source_lines' = c.merged.source_lines
           /\ target_dict' = c.merged.target_dict
           /\ target_lines' = c.merged.target_lines
           /\ output_lines' = c.merged.output_lines
           /\ updated_keys' = c.merged.updated_keys
           /\ added_keys' = c.merged.added_keys
           /\ terminal' = [tty |-> tty, response |-> response]
           /\ write_call' = c.write
    /\ args' = a
    /\ call' = [source |-> a.source, target |-> a.target, squash |-> a.squash,
                dry_run |-> a.dry_run, verbose |-> a.verbose]
    /\ pc' = "exited"
    /\ UNCHANGED <<parseVars, genVars, backupVars>>

NextCmd ==
    \/ \E squash, dry_run, verbose \in BOOLEAN :
           MergeEnvFiles(SourcePath, TargetPath, squash, dry_run, verbose)
    \/ \E a \in CmdArgs, tty \in BOOLEAN : CmdMerge(a, tty)

SpecCmd == InitCmd /\ [][NextCmd]_vars

(***************************************************************************)
(* Backups: up to MaxBackups calls backup_file(f.env, output, quiet), one  *)
(* after the other, the clock never going back.                            *)
(***************************************************************************)
MaxBackups == 2
MaxClock == 1

FilePath   == <<"f",".","e","n","v">>
CustomPath == <<"b",".","e","n","v">>
BackupPaths ==
    {FilePath, CustomPath} \cup {BackupPath(FilePath, None, t) : t \in 0..MaxClock}

InitBackup ==
    /\ files \in {[p \in BackupPaths |->
                       IF p = FilePath THEN f
                       ELSE IF p = CustomPath THEN c
                       ELSE IF p = BackupPath(FilePath, None, 0) THEN b
                       ELSE FileNotFoundError] :
                      f \in {FileNotFoundError, IsADirectoryError, <<>>, <<"A","=","1",NL>>},
                      c \in {FileNotFoundError, <<"C","=","3",NL>>},
                      b \in {FileNotFoundError, <<"A","=","0",NL>>}}
    /\ pc = "start"
    /\ call = NoCall
    /\ source_dict = <<>>
    /\ source_lines = <<>>
    /\ target_dict = <<>>
    /\ target_lines = <<>>
    /\ output_lines = <<>>
    /\ updated_keys = <<>>
    /\ added_keys = <<>>
    /\ stderr = <<>>
    /\ NotCalled

\* one call backup_file(filepath, output, quiet) at second now
BackupFile(filepath, output, quiet, now) ==
    /\ pc \in {"start", "backed_up"}
    /\ backup_call.n < MaxBackups
    /\ now >= backup_call.now
    /\ \E r \in {backup_file(files, filepath, output, quiet, now)} :
           /\ files' = r.files
           /\ error' = r.raised
           /\ stdout' = stdout \o r.stdout
           /\ backup_path' = r.backup_path
    /\ backup_call' = [filepath |-> filepath, output |-> output, quiet |-> quiet,
                       now |-> now, n |-> backup_call.n + 1]
    /\ pc' = "backed_up"
    /\ UNCHANGED <<stderr, mergeVars, parseVars, genVars, args, terminal, status, write_call>>

NextBackup ==
    \E output \in {None, <<>>, CustomPath, FilePath}, quiet \in BOOLEAN,
       now \in 0..MaxClock :
        BackupFile(FilePath, output, quiet, now)

SpecBackup == InitBackup /\ [][NextBackup]_vars

(***************************************************************************)
(* Writing the result: write_output called with a path that may be         *)
(* missing, a file or a directory, on a terminal or not, and the merge     *)
(* command writing its result with --overwrite or --output.                *)
(***************************************************************************)
MaxContentLines == 2

\* elements of the content list: a complete line and an unterminated one
WriteLineSet == { <<"A","=","1",NL>>, <<"B">> }

WriteContents == SeqsUpTo(WriteLineSet, MaxContentLines)

InitWrite ==
    /\ files \in {[p \in CmdPaths |-> IF p = SourcePath THEN s
                                      ELSE IF p = TargetPath THEN t ELSE o] :
                      s \in CmdFiles(CmdSourceLineSet),
                      t \in CmdFiles(CmdTargetLineSet),
                      o \in {FileNotFoundError, IsADirectoryError, <<"C","=","3",NL>>}}
    /\ pc = "start"
    /\ call = NoCall
    /\ source_dict = <<>>
    /\ source_lines = <<>>
    /\ target_dict = <<>>
    /\ target_lines = <<>>
    /\ output_lines = <<>>
    /\ updated_keys = <<>>
    /\ added_keys = <<>>
    /\ stderr = <<>>
    /\ NotCalled

\* lines typed at the prompt of write_output, and no line at all
WriteResponses ==
    Responses \cup { <<"y">>, <<"y","e","s">>, <<"Y","e","S"," ">>, <<>>,
                     <<"y","e">>, <<"y","e","s","!">>, <<"n","o">> }

\* one call write_output(content, filepath, quiet, force) by a process that
\* ends after it: status 1 when sys.exit(1) or an exception ends it, else 0;
\* a response is read only when the confirmation is asked for
WriteOutput(content, filepath, quiet, force, tty) ==
    /\ pc = "start"
    /\ \E response \in (IF Asks(files, filepath, force, tty)
                        THEN WriteResponses ELSE {None}) :
         \E w \in {write_output(files, content, filepath, quiet, force, tty, response)} :
           /\ files' = w.files
           /\ stdout' = w.stdout
           /\ stderr' = w.stderr
                          \o (IF w.raised # None THEN <<Traceback(w.raised)>> ELSE <<>>)
           /\ status' = (IF w.exited \/ w.raised # None THEN 1 ELSE 0)
           /\ terminal' = [tty |-> tty, response |-> response]
    /\ write_call' = [content |-> content, filepath |-> filepath,
                      quiet |-> quiet, force |-> force]
    /\ pc' = "written"
    /\ UNCHANGED <<error, mergeVars, parseVars, genVars, backupVars, args>>

\* envyeet merge a.env "not found.env" with the flags that decide where and
\* how the result is written
WriteArgs == { a \in CmdArgs : ~a.squash /\ ~a.dry_run /\ ~a.verbose }

NextWrite ==
    \/ \E content \in WriteContents, filepath \in {None, <<>>, OutPath, TargetPath},
          quiet, force, tty \in BOOLEAN :
           WriteOutput(content, filepath, quiet, force, tty)
    \/ \E a \in WriteArgs, tty \in BOOLEAN : CmdMerge(a, tty)

SpecWrite == InitWrite /\ [][NextWrite]_vars

(***************************************************************************)
(* Vocabulary of the properties.                                           *)
(***************************************************************************)
Merged == pc = "merged"

\* the physical lines of the target file, and their number
TargetText == readlines(files[call.target])
N == Len(TargetText)

Max(S) == CHOOSE x \in S : \A y \in S : y <= x
Min(S) == CHOOSE x \in S : \A y \in S : x <= y

\* where the source file assigns key k, and its last assignment
SourceAssignments(k) == {j \in 1..Len(source_lines) : source_lines[j].key = k}
LastSourceAssignment(k) == source_lines[Max(SourceAssignments(k))]

SourceKeys == {source_lines[j].key : j \in 1..Len(source_lines)} \ {None}
TargetKeys == {target_lines[i].key : i \in 1..Len(target_lines)} \ {None}
SourceOnlyKeys == SourceKeys \ TargetKeys

\* C1: every target assignment line whose key the source assigns (every
\* duplicate occurrence in the target included) is replaced, at its position,
\* by a rendered line with the value and the quote style of the LAST
\* assignment of that key in the source file.
C1_KeySubstitution ==
    Merged =>
        \A i \in 1..Len(target_lines) :
            LET k == target_lines[i].key
            IN  (k # None /\ SourceAssignments(k) # {}) =>
                    LET last == LastSourceAssignment(k)
                    IN  /\ i <= Len(output_lines)
                        /\ \E e \in BOOLEAN :
                               output_lines[i] =
                                   generate_line(k, last.value, e, last.quote_style)

\* a key assigned twice in the target and twice, with different values, in
\* the source: both target lines are replaced
C1_Witness ==
    /\ Merged
    /\ \E i, j \in 1..Len(target_lines) :
           /\ i < j
           /\ target_lines[i].key # None
           /\ target_lines[i].key = target_lines[j].key
           /\ \E a, b \in SourceAssignments(target_lines[i].key) :
                  /\ a < b
                  /\ source_lines[a].value # source_lines[b].value
                  /\ source_lines[a].quote_style # source_lines[b].quote_style
           /\ output_lines[i] # target_lines[i].raw
           /\ output_lines[j] # target_lines[j].raw

\* C2: a target line that is a comment, blank, unrecognized, or an assignment
\* of a key the source does not assign is emitted with its original text
\* unchanged at the same index, with and without squash.
C2_Verbatim ==
    Merged =>
        \A i \in 1..N :
            (/\ i <= Len(target_lines)
             /\ \/ target_lines[i].key = None
                \/ SourceAssignments(target_lines[i].key) = {})
            => /\ i <= Len(output_lines)
               /\ output_lines[i] = TargetText[i]

\* squash appends a key while a comment and an assignment the source lacks
\* are kept
C2_Witness ==
    /\ Merged
    /\ call.squash
    /\ added_keys # <<>>
    /\ \E i, j \in 1..N :
           /\ target_lines[i].is_comment
           /\ output_lines[i] = TargetText[i]
           /\ target_lines[j].key # None
           /\ SourceAssignments(target_lines[j].key) = {}
           /\ output_lines[j] = TargetText[j]

\* C3: the output has N lines without squash, and with squash N plus the
\* number of distinct source keys absent from the target.
C3_LineCount ==
    Merged =>
        Len(output_lines) =
            N + (IF call.squash THEN Cardinality(SourceOnlyKeys) ELSE 0)

\* squash with a source-only key assigned twice: one line is appended for it
C3_Witness ==
    /\ Merged
    /\ call.squash
    /\ N >= 1
    /\ \E k \in SourceOnlyKeys : Cardinality(SourceAssignments(k)) >= 2
    /\ Len(output_lines) > N

(***************************************************************************)
(* The assignment grammar, stated on the text of a line: an optional       *)
(* prefix (the word export and one or more whitespace characters), an      *)
(* identifier, "=", and the rest of the line.                              *)
(***************************************************************************)
Body(line) ==
    IF line # <<>> /\ line[Len(line)] = NL THEN SubSeq(line, 1, Len(line) - 1) ELSE line

IsIdentifier(s) ==
    /\ s # <<>>
    /\ s[1] \in IdentStart
    /\ \A i \in 2..Len(s) : s[i] \in IdentChar

\* the first p characters are the export prefix, the "=" is at position e
GrammarSplit(line, p, e) ==
    LET body == Body(line)
    IN  /\ p < e
        /\ e <= Len(body)
        /\ \/ p = 0
           \/ /\ p > Len(KwExport)
              /\ SubSeq(body, 1, Len(KwExport)) = KwExport
              /\ \A i \in (Len(KwExport) + 1)..p : body[i] \in Whitespace
        /\ IsIdentifier(SubSeq(body, p + 1, e - 1))
        /\ body[e] = "="
        /\ \A i \in (e + 1)..Len(body) : body[i] # NL

MatchesGrammar(line) ==
    \E p \in 0..Len(line), e \in 1..Len(line) : GrammarSplit(line, p, e)

HasExportPrefix(line) ==
    \E p \in 1..Len(line), e \in 1..Len(line) : GrammarSplit(line, p, e)

\* the prefix is exactly the word export and one space
HasPlainExportPrefix(line) ==
    \E e \in 1..Len(line) : GrammarSplit(line, Len(KwExport) + 1, e)
                            /\ line[Len(KwExport) + 1] = " "

\* neither blank, nor a comment, nor an assignment
Unrecognized(line) ==
    /\ \E i \in 1..Len(line) : line[i] \notin Whitespace
    /\ \A i \in 1..Len(line) :
           (\A j \in 1..(i - 1) : line[j] \in Whitespace) => line[i] # "#"
    /\ ~MatchesGrammar(line)

\* the text without its i-th physical line
WithoutLine(text, i) ==
    LET ls == readlines(text)
    IN  join([j \in 1..(Len(ls) - 1) |-> IF j < i THEN ls[j] ELSE ls[j + 1]])

(***************************************************************************)
(* A file merged with itself.                                              *)
(***************************************************************************)
SelfMerge == Merged /\ call.source = call.target /\ ~call.squash

\* no key is assigned twice, every assignment line is terminated, and every
\* export prefix is the word export and exactly one space
PlainlyWritten ==
    \A i \in 1..Len(target_lines) :
        target_lines[i].key # None =>
            /\ \A j \in 1..Len(target_lines) :
                   target_lines[j].key = target_lines[i].key => j = i
            /\ endswith(TargetText[i], <<NL>>)
            /\ (HasExportPrefix(TargetText[i]) => HasPlainExportPrefix(TargetText[i]))

\* C4 (as stated): a file merged with itself, without squash, gives back the
\* file's content character for character, for every file.
C4_SelfMergeIdentity ==
    SelfMerge => join(output_lines) = files[call.target]

\* C4 (amended): a file merged with itself, without squash, gives back the
\* file's content character for character when no key is assigned twice,
\* every assignment line ends with a line terminator and every export
\* prefix is "export" followed by exactly one space.
C4_SelfMergeIdentityPlain ==
    (SelfMerge /\ PlainlyWritten) => join(output_lines) = files[call.target]

\* a plainly written file with an exported, quoted assignment and a second
\* quoted assignment, both rendered again by the merge
C4_Witness ==
    /\ SelfMerge
    /\ PlainlyWritten
    /\ Len(updated_keys) = 2
    /\ \E i, j \in 1..Len(target_lines) :
           /\ target_lines[i].is_export
           /\ target_lines[i].quote_style = <<SQ>>
           /\ target_lines[j].quote_style = <<DQ>>
    /\ join(output_lines) = files[call.target]

(***************************************************************************)
(* Squash.                                                                 *)
(***************************************************************************)
\* the lines after the target-derived ones
Appended == SubSeq(output_lines, N + 1, Len(output_lines))

\* the line of a source key: the value, quote style and exported flag of its
\* last assignment in the source
SquashLine(k) ==
    LET last == LastSourceAssignment(k)
    IN  generate_line(k, last.value, last.is_export, last.quote_style)

\* C5: with squash the appended lines are exactly one rendered line per
\* source key absent from the target (source value, quote style and exported
\* flag), a key of both files is never appended; without squash nothing is
\* appended and no output line assigns a source-only key.
C5_SquashAppends ==
    Merged =>
        IF call.squash
        THEN /\ Len(output_lines) >= N
             /\ Len(Appended) = Cardinality(SourceOnlyKeys)
             /\ \A k \in SourceOnlyKeys :
                    \E idx \in 1..Len(Appended) : Appended[idx] = SquashLine(k)
             /\ \A idx \in 1..Len(Appended) :
                    \E k \in SourceOnlyKeys : Appended[idx] = SquashLine(k)
        ELSE /\ Len(output_lines) = N
             /\ \A i \in 1..Len(output_lines) :
                    ParseLine(output_lines[i]).key \notin SourceOnlyKeys

\* squash with an exported source-only key and a key of both files
C5_Witness ==
    /\ Merged
    /\ call.squash
    /\ SourceKeys \cap TargetKeys # {}
    /\ \E k \in SourceOnlyKeys :
           /\ LastSourceAssignment(k).is_export
           /\ LastSourceAssignment(k).quote_style = <<SQ>>
           /\ Appended = <<SquashLine(k)>>

FirstSeen(k) == Min(SourceAssignments(k))

AppendedAt(k) == {idx \in 1..Len(Appended) : ParseLine(Appended[idx]).key = k}

\* C6: the appended source-only keys stand in the order of their first
\* assignment in the source, also for a key assigned again later, whose line
\* carries its last value.
C6_SquashOrder ==
    (Merged /\ call.squash) =>
        \A a, b \in SourceOnlyKeys :
            /\ Cardinality(AppendedAt(a)) = 1
            /\ \A ia \in AppendedAt(a) : Appended[ia] = SquashLine(a)
            /\ (a # b =>
                   \A ia \in AppendedAt(a), ib \in AppendedAt(b) :
                       (ia < ib) <=> (FirstSeen(a) < FirstSeen(b)))

\* key a is assigned, then key b, then a again with another value; a's line
\* is appended before b's
C6_Witness ==
    /\ Merged
    /\ call.squash
    /\ \E a, b \in SourceOnlyKeys :
           /\ FirstSeen(a) < FirstSeen(b)
           /\ FirstSeen(b) < Max(SourceAssignments(a))
           /\ source_lines[FirstSeen(a)].value # LastSourceAssignment(a).value
           /\ Appended = <<SquashLine(a), SquashLine(b)>>

(***************************************************************************)
(* Export prefix, order, physical lines, unrecognized lines.               *)
(***************************************************************************)
\* C7: a substituted line carries the export prefix exactly when the target
\* line is exported or the source's assignment of the key is exported; an
\* exported target line never loses its prefix.
C7_ExportSticky ==
    Merged =>
        \A i \in 1..Len(target_lines) :
            LET k == target_lines[i].key
            IN  (k # None /\ SourceAssignments(k) # {}) =>
                    (HasPlainExportPrefix(output_lines[i])
                        <=> \/ HasExportPrefix(TargetText[i])
                            \/ HasExportPrefix(LastSourceAssignment(k).raw))

\* C8: the assignment line of a key at target position i has its output
\* line at position i, and no line is reordered, deleted or inserted among
\* the first N output lines, whatever the order of the keys in the source.
C8_OrderPreserved ==
    Merged =>
        /\ Len(output_lines) >= N
        /\ Len(target_lines) = N
        /\ \A i \in 1..N :
               IF target_lines[i].key # None
               THEN ParseLine(output_lines[i]).key = target_lines[i].key
               ELSE output_lines[i] = TargetText[i]

\* two keys in one order in the target and in the other order in the source,
\* both substituted
C8_Witness ==
    /\ Merged
    /\ N = 2
    /\ target_lines[1].key # None
    /\ target_lines[2].key # None
    /\ target_lines[1].key # target_lines[2].key
    /\ SourceAssignments(target_lines[1].key) # {}
    /\ SourceAssignments(target_lines[2].key) # {}
    /\ FirstSeen(target_lines[2].key) < FirstSeen(target_lines[1].key)
    /\ updated_keys = <<target_lines[1].key, target_lines[2].key>>

\* C9: the concatenated output has as many physical lines as the output has
\* elements, so every appended key starts on a physical line of its own.
C9_PhysicalLines ==
    Merged => Len(readlines(join(output_lines))) = Len(output_lines)

\* C10: an unrecognized line is kept as one record at its position, adds or
\* changes no entry of the key index, and is emitted unchanged by the merge,
\* also when the source assigns keys named on that line.
C10_UnrecognizedKept ==
    Merged =>
        \A i \in 1..N :
            Unrecognized(TargetText[i]) =>
                /\ Len(target_lines) = N
                /\ target_lines[i].raw = TargetText[i]
                /\ target_lines[i].key = None
                /\ target_dict =
                       parse_env_file(WithoutLine(files[call.target], i),
                                      call.target, FALSE).env_dict
                /\ i <= Len(output_lines)
                /\ output_lines[i] = TargetText[i]

\* an unrecognized line that names two keys the source assigns, after an
\* assignment the merge replaces
C10_Witness ==
    /\ Merged
    /\ N = 2
    /\ target_lines[1].key # None
    /\ updated_keys # <<>>
    /\ Unrecognized(TargetText[2])
    /\ \E a, b \in SourceKeys :
           /\ a # b
           /\ \E x, y \in 1..Len(TargetText[2]) :
                  /\ x < y
                  /\ y + Len(b) - 1 <= Len(TargetText[2])
                  /\ SubSeq(TargetText[2], x, x + Len(a) - 1) = a
                  /\ SubSeq(TargetText[2], y, y + Len(b) - 1) = b
    /\ output_lines[2] = TargetText[2]

(***************************************************************************)
(* The records of the parser.                                              *)
(***************************************************************************)
\* parse_env_file has returned
Parsed == pc \in {"parsed", "parsed_rendered"} /\ error = None

\* the physical lines of the parsed file
ParsedText == readlines(files[parse_call.filepath])

\* the first character of the line that is not whitespace is "#"
StartsWithHash(line) ==
    \E i \in 1..Len(line) :
        /\ line[i] = "#"
        /\ \A j \in 1..(i - 1) : line[j] \in Whitespace

\* the three categories of a record
IsAssignment(rec) == rec.key # None /\ ~rec.is_comment /\ ~rec.is_empty
IsComment(rec) == rec.is_comment /\ rec.key = None /\ ~rec.is_empty
IsBlankOrUnrecognized(rec) == rec.is_empty /\ rec.key = None /\ ~rec.is_comment

\* C11: parse_env_file returns one record per physical line, in input order;
\* every record has exactly one category (Assignment with a key, Comment or
\* Blank/Unrecognized without one); a record is a Comment exactly when the
\* first non-whitespace character of its line is "#", also when the rest of
\* the line is a valid assignment; and every key of the key index is the key
\* of some Assignment record.
C11_OneRecordPerLine ==
    Parsed =>
        /\ Len(all_lines) = Len(ParsedText)
        /\ \A i \in 1..Len(all_lines) :
               /\ all_lines[i].raw = ParsedText[i]
               /\ Cardinality({c \in {"assignment", "comment", "blank"} :
                       \/ c = "assignment" /\ IsAssignment(all_lines[i])
                       \/ c = "comment" /\ IsComment(all_lines[i])
                       \/ c = "blank" /\ IsBlankOrUnrecognized(all_lines[i])}) = 1
               /\ IsComment(all_lines[i]) <=> StartsWithHash(ParsedText[i])
        /\ \A e \in 1..Len(env_dict) :
               \E i \in 1..Len(all_lines) :
                   /\ IsAssignment(all_lines[i])
                   /\ all_lines[i].key = env_dict[e][1]

\* a comment that is a valid assignment after its "#", behind blanks, next to
\* an assignment of the same key
C11_Witness ==
    /\ Parsed
    /\ pc = "parsed"
    /\ Len(all_lines) = 2
    /\ \E i, j \in 1..2 :
           /\ IsComment(all_lines[i])
           /\ MatchesGrammar(Tail(ParsedText[i]))
           /\ IsAssignment(all_lines[j])
           /\ ParsedText[i] = <<"#">> \o ParsedText[j]
    /\ Len(env_dict) = 1

(***************************************************************************)
(* The grammar as section 4.1 words it: the export prefix is the word      *)
(* export and a single whitespace character.                               *)
(***************************************************************************)
MatchesWithoutExport(line) ==
    \E e \in 1..Len(line) : GrammarSplit(line, 0, e)

MatchesWithExport(line) ==
    \E e \in 1..Len(line) : GrammarSplit(line, Len(KwExport) + 1, e)

\* C12: a line is classified as an Assignment exactly when it matches the
\* grammar (optional export keyword and a single whitespace, identifier, "=",
\* rest of the line), and the exported flag of the record is true exactly
\* when the line matched with the export prefix present.
C12_AssignmentGrammar ==
    Parsed =>
        \A i \in 1..Len(all_lines) :
            /\ IsAssignment(all_lines[i])
                   <=> (MatchesWithoutExport(ParsedText[i]) \/ MatchesWithExport(ParsedText[i]))
            /\ all_lines[i].is_export <=> MatchesWithExport(ParsedText[i])

(***************************************************************************)
(* Quote style.                                                            *)
(***************************************************************************)
\* the raw value span of an assignment line: what follows its first "=", up
\* to but not including the line terminator
RawSpan(line) ==
    SubSeq(Body(line), Min({i \in 1..Len(line) : line[i] = "="}) + 1, Len(Body(line)))

\* the span is at least two long and both starts and ends with character q
Delimited(span, q) == Len(span) >= 2 /\ span[1] = q /\ span[Len(span)] = q

\* C13: for every Assignment line the quote style is single (double) exactly
\* when the raw value span is at least two long and both starts and ends
\* with the single (double) quote character, and then the value is the span
\* without its first and last character; in every other case the quote
\* style is none and the value is the raw span unmodified.
C13_QuoteStyle ==
    Parsed =>
        \A i \in 1..Len(all_lines) :
            IsAssignment(all_lines[i]) =>
                LET span == RawSpan(ParsedText[i])
                    rec  == all_lines[i]
                IN  /\ rec.quote_style = <<SQ>> <=> Delimited(span, SQ)
                    /\ rec.quote_style = <<DQ>> <=> Delimited(span, DQ)
                    /\ IF Delimited(span, SQ) \/ Delimited(span, DQ)
                       THEN rec.value = SubSeq(span, 2, Len(span) - 1)
                       ELSE rec.quote_style = None /\ rec.value = span

\* a span that is one lone quote character, and a quoted span with a quote
\* character inside
C13_Witness ==
    /\ Parsed
    /\ pc = "parsed"
    /\ \E i, j \in 1..Len(all_lines) :
           /\ IsAssignment(all_lines[i])
           /\ RawSpan(ParsedText[i]) = <<SQ>>
           /\ all_lines[i].quote_style = None
           /\ all_lines[i].value = <<SQ>>
           /\ IsAssignment(all_lines[j])
           /\ all_lines[j].quote_style = <<SQ>>
           /\ all_lines[j].value = <<"a", SQ, "b">>

(***************************************************************************)
(* Parsing a line and rendering its record again.                          *)
(***************************************************************************)
\* generate_line has been called on the fields of record rec
RenderedFrom(rec) ==
    /\ pc = "parsed_rendered"
    /\ IsAssignment(rec)
    /\ gen_call = [key |-> rec.key, value |-> rec.value,
                   is_export |-> rec.is_export, quote_style |-> rec.quote_style]

\* C14: the line rendered from a parsed Assignment record (its own key,
\* value, exported flag and quote style) has the value text and the quoting
\* of the original line: the same raw value span after the same key, for
\* every span, empty quoted values and embedded quote characters included.
C14_QuoteRoundTrip ==
    Parsed =>
        \A i \in 1..Len(all_lines) :
            RenderedFrom(all_lines[i]) =>
                /\ MatchesGrammar(new_line)
                /\ RawSpan(new_line) = RawSpan(ParsedText[i])
                /\ ParseLine(new_line).key = all_lines[i].key
                /\ ParseLine(new_line).quote_style = all_lines[i].quote_style
                /\ ParseLine(new_line).value = all_lines[i].value

\* a single-quoted span with a quote character inside is rendered again
C14_Witness ==
    /\ Parsed
    /\ \E i \in 1..Len(all_lines) :
           /\ RenderedFrom(all_lines[i])
           /\ all_lines[i].quote_style = <<SQ>>
           /\ all_lines[i].value = <<"a", SQ, "b">>
           /\ RawSpan(new_line) = <<SQ, "a", SQ, "b", SQ>>

(***************************************************************************)
(* The renderer.                                                           *)
(***************************************************************************)
Rendered == pc = "rendered"

\* the value, the empty string when it is absent
ValueOrEmpty(value) == IF value = None THEN <<>> ELSE value

\* C15: generate_line returns "export " if exported else nothing, the key,
\* "=", the value wrapped in the quote character when the quote style is
\* single or double and unwrapped otherwise, and one newline; an absent
\* value is the empty string, an empty value with quote style none gives
\* KEY=, and quote characters inside the value are neither escaped nor
\* removed.
C15_RenderedLine ==
    Rendered =>
        LET v == ValueOrEmpty(gen_call.value)
            q == gen_call.quote_style
        IN  /\ new_line =
                   (IF gen_call.is_export THEN <<"e","x","p","o","r","t"," ">> ELSE <<>>)
                       \o gen_call.key \o <<"=">>
                       \o (IF q \in {<<SQ>>, <<DQ>>} THEN q \o v \o q ELSE v)
                       \o <<NL>>
            /\ (v = <<>> /\ q = None /\ ~gen_call.is_export)
                   => new_line = gen_call.key \o <<"=", NL>>

\* an absent value in double quotes, exported
C15_Witness ==
    /\ Rendered
    /\ gen_call.value = None
    /\ gen_call.quote_style = <<DQ>>
    /\ gen_call.is_export
    /\ new_line = <<"e","x","p","o","r","t"," ">> \o gen_call.key \o <<"=", DQ, DQ, NL>>

(***************************************************************************)
(* The merge command.                                                      *)
(***************************************************************************)
\* the step of one run of the merge command
CmdMergeStep == pc = "start" /\ pc' = "exited"

\* the command has run
Exited == pc = "exited"

\* C16: a run of the merge command with --dry-run writes to no file (not
\* the target under --overwrite, not the --output path) and prints nothing
\* to standard output, whatever the other flags are.
C16_DryRunWritesNothing ==
    [][(CmdMergeStep /\ args'.dry_run) => (files' = files /\ stdout' = <<>>)]_vars

\* a dry run with --overwrite, not quiet, of a merge that changes the target
C16_Witness ==
    /\ Exited
    /\ args.dry_run
    /\ args.overwrite
    /\ ~args.quiet
    /\ error = None
    /\ updated_keys # <<>>
    /\ join(output_lines) # files[args.target]
    /\ stdout = <<>>
    /\ status = 0

(***************************************************************************)
(* The dry-run report.                                                     *)
(***************************************************************************)
\* merge_env_files was called in dry-run mode and returned
DryRun == pc \in {"merged", "exited"} /\ error = None /\ call.dry_run

\* the keys of the target lines that were substituted, and the source-only
\* keys appended under squash
SubstitutedKeys ==
    {k \in TargetKeys : SourceAssignments(k) # {}}
AppendedKeys == IF call.squash THEN SourceOnlyKeys ELSE {}

\* the reports of one kind on standard error, each as the set of its keys
Reported(kind) ==
    { {stderr[j].keys[x] : x \in 1..Len(stderr[j].keys)} :
        j \in {j \in 1..Len(stderr) : stderr[j].kind = kind} }

\* C17: in dry-run mode the engine reports the set of updated keys and the
\* set of added keys, and reports "no changes" exactly when both sets are
\* empty.
C17_DryRunReport ==
    DryRun =>
        /\ SubstitutedKeys # {} => Reported("update") = {SubstitutedKeys}
        /\ SubstitutedKeys = {} => Reported("update") = {}
        /\ AppendedKeys # {} => Reported("add") = {AppendedKeys}
        /\ AppendedKeys = {} => Reported("add") = {}
        /\ Reported("nochange") # {} <=> (SubstitutedKeys = {} /\ AppendedKeys = {})

(***************************************************************************)
(* Unreadable input.                                                       *)
(***************************************************************************)
\* the source or the target cannot be read; FailedFile is the mark of the
\* one the call fails on (the source is opened first)
InputUnreadable ==
    files[SourcePath] \in Unreadable \/ files[TargetPath] \in Unreadable

FailedFile ==
    IF files[SourcePath] \in Unreadable THEN files[SourcePath] ELSE files[TargetPath]

NotFoundMessage ==
    <<"E","n","v","i","r","o","n","m","e","n","t"," ","f","i","l","e"," ",
      "n","o","t"," ","f","o","u","n","d">>

\* C18: when the source or the target cannot be read the merge call raises
\* an error (the "not found" error exactly when the file is missing, another
\* one otherwise), returns no output line, and nothing is written to any
\* file or to standard output; the merge command then exits with status 2
\* for a missing file and with status 1 for any other error.
C18_UnreadableInput ==
    [][(pc = "start" /\ InputUnreadable) =>
          /\ error' # None
          /\ startswith(error', NotFoundMessage) <=> FailedFile = FileNotFoundError
          /\ output_lines' = <<>>
          /\ files' = files
          /\ stdout' = <<>>
          /\ pc' = "exited" =>
                 status' = IF FailedFile = FileNotFoundError THEN 2 ELSE 1]_vars

(***************************************************************************)
(* The inputs of the merge.                                                *)
(***************************************************************************)
\* the step of one call of merge_env_files
MergeEnvFilesStep == pc = "start" /\ pc' = "merged"

\* C19: no call of merge_env_files (any squash, dry_run and verbose, whether
\* it returns or raises) changes the content of the source file or of the
\* target file; the target changes only in a run of the merge command with
\* --overwrite, or with --output naming the target, and without --dry-run.
C19_InputsNotMutated ==
    [][/\ MergeEnvFilesStep => files' = files
       /\ files'[TargetPath] # files[TargetPath] =>
              /\ CmdMergeStep
              /\ ~args'.dry_run
              /\ args'.overwrite \/ args'.output = TargetPath]_vars

\* a call with squash, in dry-run mode and verbose, that returns lines which
\* differ from the target's and append a key
C19_Witness ==
    /\ Merged
    /\ error = None
    /\ call.squash
    /\ call.dry_run
    /\ call.verbose
    /\ added_keys # <<>>
    /\ join(output_lines) # files[call.target]
    /\ files[call.source] # files[call.target]

(***************************************************************************)
(* Backups.                                                                *)
(***************************************************************************)
\* the step of one call of backup_file
BackupFileStep == backup_call'.n = backup_call.n + 1

\* the path the call just made backs up to
CalledBackupPath ==
    BackupPath(backup_call'.filepath, backup_call'.output, backup_call'.now)

\* C20: backup_file overwrites no existing file: when the backup path
\* (custom or timestamped) exists it raises the "already exists" error and
\* the file there is unchanged; when the file to back up does not exist it
\* raises the "not found" error and creates nothing; and when it returns,
\* the new backup has the content of the original and the original is
\* unchanged.
C20_BackupNeverOverwrites ==
    [][BackupFileStep =>
          /\ \A p \in BackupPaths : exists(files, p) => files'[p] = files[p]
          /\ ~exists(files, backup_call'.filepath) =>
                 /\ Contains(error', <<"n","o","t"," ","f","o","u","n","d">>)
                 /\ files' = files
          /\ (exists(files, backup_call'.filepath) /\ exists(files, CalledBackupPath)) =>
                 /\ Contains(error', <<"a","l","r","e","a","d","y"," ","e","x","i","s","t","s">>)
                 /\ files' = files
          /\ error' = None =>
                 /\ ~exists(files, CalledBackupPath)
                 /\ backup_path' = CalledBackupPath
                 /\ files'[CalledBackupPath] = files[backup_call'.filepath]
                 /\ files'[backup_call'.filepath] = files[backup_call'.filepath]]_vars

\* a second backup in the same second as the first: it is refused, and the
\* first backup still has the content of the original
C20_Witness ==
    /\ pc = "backed_up"
    /\ backup_call.n = 2
    /\ backup_call.output = None
    /\ Contains(error, <<"a","l","r","e","a","d","y"," ","e","x","i","s","t","s">>)
    /\ files[FilePath] = <<"A","=","1",NL>>
    /\ files[BackupPath(FilePath, None, backup_call.now)] = files[FilePath]

(***************************************************************************)
(* Overwriting an existing file.                                           *)
(***************************************************************************)
\* a step in which write_output is called: directly, or by the merge command
WriteOutputStep ==
    /\ pc = "start"
    /\ \/ pc' = "written"
       \/ pc' = "exited" /\ error' = None /\ ~args'.dry_run

\* the call is given a path at which there is a file before the call
ToExistingFile ==
    /\ WriteOutputStep
    /\ write_call'.filepath \notin {None, <<>>}
    /\ files[write_call'.filepath] \notin {FileNotFoundError, IsADirectoryError}

\* s is w, letter case aside
SameLetters(s, w) ==
    /\ Len(s) = Len(w)
    /\ \A i \in 1..Len(w) :
           \E k \in 1..Len(LowerSeq) :
               /\ LowerSeq[k] = w[i]
               /\ s[i] \in {LowerSeq[k], UpperSeq[k]}

\* a line was typed at the prompt and it is y or yes, letter case and the
\* white space around it aside
AnsweredYes(response) ==
    /\ response \notin {None, EOFError}
    /\ \E w \in { <<"y">>, <<"y","e","s">> } : SameLetters(strip(response), w)

\* standard output is a TTY, force is off and the answer is not y or yes
Declined ==
    /\ terminal'.tty
    /\ ~write_call'.force
    /\ ~AnsweredYes(terminal'.response)

\* C21: write_output to a path at which a file already exists leaves every
\* file unchanged and ends the process with status 1 exactly when standard
\* output is a TTY, force is false (for the merge command: neither --force
\* nor --no-input) and the confirmation is not answered y or yes; in every
\* other case, a run that is not on a TTY and asks nothing included, the
\* file's content afterwards is the concatenation of the given lines, the
\* other files are unchanged and the process does not end with status 1.
C21_OverwriteConfirmation ==
    [][ ToExistingFile =>
          /\ pc' = "exited" =>
                 write_call'.force = (args'.force \/ args'.no_input)
          /\ IF Declined
             THEN files' = files /\ status' = 1
             ELSE /\ files' = [files EXCEPT ![write_call'.filepath] =
                                                join(write_call'.content)]
                  /\ status' = 0 ]_vars

\* C21 witness: on a TTY, without force, the answer n to the question about
\* an existing file that the content would have changed: the file is as it
\* was and the status is 1
C21_Witness ==
    /\ pc = "written"
    /\ write_call.filepath = OutPath
    /\ ~write_call.force
    /\ terminal.tty
    /\ terminal.response = <<"n">>
    /\ write_call.content = << <<"A","=","1",NL>>, <<"B">> >>
    /\ files[OutPath] = <<"C","=","3",NL>>
    /\ status = 1
    /\ stderr = <<Aborted>>

====
